---------------------------- MODULE Spec2Model ----------------------------
(***************************************************************************)
(* A model of transit_model's input utilities:                             *)
(*   - src/src/read_utils.rs : FileHandler, PathFileHandler, ZipHandler,   *)
(*     read_objects, read_objects_loose, read_collection,                  *)
(*     read_opt_collection                                                 *)
(*   - src/src/add_prefix.rs : AddPrefix and its container impls           *)
(*   - src/src/netex_france/modes.rs : NetexMode                           *)
(*                                                                         *)
(* Representation choices                                                  *)
(*   - A path, and a file name given as a string, is the list of its       *)
(*     '/'-separated components: "folder/world.txt" is                     *)
(*     <<"folder", "world.txt">>.  The string of one base name is a list   *)
(*     of one component.                                                   *)
(*   - An identifier or a CSV field is a string held as the list of its    *)
(*     characters, so that concatenation and trimming are computed.        *)
(*   - Option<T> and Result<T> are records (None/Some, Ok/Err).            *)
(*   - The backing store is assumed readable: opening a file that exists   *)
(*     does not fail with an I/O error.                                    *)
(*   - CollectionWithId (its constructor, and the index update made when   *)
(*     the guard returned by index_mut is dropped) belongs to the crate    *)
(*     typed_index_collection, and the record types to crate::objects:     *)
(*     both are outside these sources and are modelled from the            *)
(*     specification.                                                      *)
(*                                                                         *)
(* Specifications, one per component:                                      *)
(*   SpecFile   the two file sources over a directory and its archive      *)
(*   SpecZip    the archive source over archives of any entries            *)
(*   SpecRead   the record readers and the collection builder              *)
(*   SpecPrefix Collections::add_prefix over datasets of any collections   *)
(*   SpecMaps   Collections::add_prefix over datasets of any stop time maps*)
(*   SpecMode   the mode classification                                    *)
(***************************************************************************)
EXTENDS Integers, Sequences, FiniteSets, TLC

VARIABLES
    fs,             \* the file system: absolute path of a file -> its content
    archive,        \* ZipHandler.archive: the entries, entry i at archive[i+1]
                    \* (its name, its data, whether by_index opens it)
    index_by_name,  \* ZipHandler.index_by_name
    pathRes,        \* the last call on the PathFileHandler and its result
    zipRes,         \* the last call on the ZipHandler and its result
    strictRes,      \* the last call of read_objects, its result and its log
    looseRes,       \* the last call of read_objects_loose, result and log
    collRes,        \* the last call of read_collection / read_opt_collection
    collections,    \* the dataset (Collections): the collections and maps
    call,           \* the namespacing call made on the dataset
    before,         \* the dataset as it was when the call was made
    pc,             \* where the call stands in Collections::add_prefix
    prefix,         \* the prefix argument of add_prefix
    indexes,        \* CollectionWithId::add_prefix: the captured positions
    next,           \* CollectionWithId::add_prefix: iterations completed
    netex_modes,    \* the set of modes given to calculate_highest_mode
    modeRes,        \* the last call of from_physical_mode_id, result and log
    highestRes      \* the last call of calculate_highest_mode and its result

fileVars == <<fs, archive, index_by_name, pathRes, zipRes>>
readVars == <<strictRes, looseRes, collRes>>
prefixVars == <<collections, call, before, pc, prefix, indexes, next>>

modeVars == <<netex_modes, modeRes, highestRes>>

vars == <<fileVars, readVars, prefixVars, modeVars>>

---------------------------------------------------------------------------
(* Bounds of the model *)

\* the largest number of files a dataset holds
MaxFiles == 3

\* the largest number of entries of an archive of any entries
MaxArchive == 3

\* the largest number of rows of a tabular file
MaxRows == 3

\* the largest number of records of a collection
MaxLen == 2

\* the largest number of entries of a stop time map
MaxEntries == 2

---------------------------------------------------------------------------
(* Option and Result *)

None == [some |-> FALSE]
Some(v) == [some |-> TRUE, value |-> v]

Ok(v) == [ok |-> TRUE, value |-> v]
Err(e) == [ok |-> FALSE, error |-> e]

\* the state of a handler on which nothing was called yet
NoCall == [op |-> "none"]

Last(s) == s[Len(s)]

---------------------------------------------------------------------------
(* std::path *)

\* Path::join of a relative path
Join(base, name) == base \o name

\* Path::file_name: the final component, None for an empty path or a path
\* that ends in ".."
file_name(path) ==
    IF path = <<>> \/ Last(path) = ".." THEN None ELSE Some(Last(path))

IsPrefixOf(p, q) == Len(p) <= Len(q) /\ SubSeq(q, 1, Len(p)) = p

\* Path::exists: a file, or a directory that holds one
Exists(f) == \E q \in DOMAIN fs : IsPrefixOf(f, q)

\* File::open of a path that exists: the stream of a file; of a directory, a
\* handle whose reads fail (Unix)
FileOpen(f) ==
    IF f \in DOMAIN fs THEN [kind |-> "file", data |-> fs[f]]
    ELSE [kind |-> "dir"]

---------------------------------------------------------------------------
(* The dataset roots *)

base_path == <<"tests", "fixtures", "file-handler">>
archive_path == <<"tests", "fixtures", "file-handler.zip">>

\* the relative paths a dataset may hold
FilePaths ==
    { <<"hello.txt">>, <<"world.txt">>,
      <<"folder", "hello.txt">>, <<"folder", "world.txt">> }

FileContents == {"hello\n", "world\n"}

\* the file names a caller asks for
Names == FilePaths \cup { <<"folder">>, <<"missing.txt">> }

---------------------------------------------------------------------------
(* PathFileHandler *)

\* mutant: the requested name is probed without the base path
PathFileHandler_get_file_if_exists_NoJoin(name) ==
    IF Exists(name)
    THEN Ok([reader |-> Some(FileOpen(name)), path |-> name])
    ELSE Ok([reader |-> None, path |-> name])

PathFileHandler_get_file_if_exists(name) ==
    LET f == Join(base_path, name)
    IN  IF Exists(f)
        THEN Ok([reader |-> Some(FileOpen(f)), path |-> f])
        ELSE Ok([reader |-> None, path |-> f])

---------------------------------------------------------------------------
(* ZipHandler *)

EmptyMap == [k \in {} |-> 0]

\* BTreeMap::insert: a later value replaces an earlier one under the same key
MapInsert(m, k, v) ==
    [x \in (DOMAIN m) \cup {k} |-> IF x = k THEN v ELSE m[x]]

\* mutant: the first entry of a base name is kept, not the last
RECURSIVE files_by_name_upto_FirstWins(_, _)
files_by_name_upto_FirstWins(ar, n) ==
    IF n = 0 THEN EmptyMap
    ELSE LET m == files_by_name_upto_FirstWins(ar, n - 1)
             i == n - 1
             real_name == file_name(ar[i + 1].name)
         IN  IF ar[i + 1].opens /\ real_name.some
                /\ <<real_name.value>> \notin DOMAIN m
             THEN MapInsert(m, <<real_name.value>>, i)
             ELSE m

\* the map collected from the entries 0 .. n-1, scanned in index order: an
\* entry that by_index does not open (an encrypted entry, an unsupported
\* compression) or whose name has no final component is left out.  The name
\* of an entry is a str, so that to_str() gives it back.
RECURSIVE files_by_name_upto(_, _)
files_by_name_upto(ar, n) ==
    IF n = 0 THEN EmptyMap
    ELSE LET m == files_by_name_upto(ar, n - 1)
             i == n - 1
             real_name == file_name(ar[i + 1].name)
         IN  IF ar[i + 1].opens /\ real_name.some
             THEN MapInsert(m, <<real_name.value>>, i)
             ELSE m

files_by_name(ar) == files_by_name_upto(ar, Len(ar))

\* ZipArchive::by_index
by_index(i) == [kind |-> "file", data |-> archive[i + 1].data]

ZipHandler_get_file_if_exists(name) ==
    LET p == Join(archive_path, name)
    IN  IF name \notin DOMAIN index_by_name
        THEN Ok([reader |-> None, path |-> p])
        ELSE Ok([reader |-> Some(by_index(index_by_name[name])), path |-> p])

---------------------------------------------------------------------------
(* FileHandler *)

get_file_if_exists(handler, name) ==
    IF handler = "path" THEN PathFileHandler_get_file_if_exists(name)
    ELSE ZipHandler_get_file_if_exists(name)

\* the error of anyhow!("file {:?} not found", path)
FileNotFound(path) == [msg |-> "file not found", path |-> path]

\* mutant: a missing file is reported without the display path
get_file_NoPath(handler, name) ==
    LET r == get_file_if_exists(handler, name)
    IN  IF ~r.ok THEN r
        ELSE IF r.value.reader.some
        THEN Ok([reader |-> r.value.reader.value, path |-> r.value.path])
        ELSE Err(FileNotFound(name))

get_file(handler, name) ==
    LET r == get_file_if_exists(handler, name)
    IN  IF ~r.ok THEN r
        ELSE IF r.value.reader.some
        THEN Ok([reader |-> r.value.reader.value, path |-> r.value.path])
        ELSE Err(FileNotFound(r.value.path))

---------------------------------------------------------------------------
(* The datasets: a directory and the archive of the same files *)

\* the sequences that list every element of S once
Orderings(S) ==
    { s \in [1 .. Cardinality(S) -> S] :
        \A i, j \in 1 .. Cardinality(S) : i # j => s[i] # s[j] }

\* the directory tree that holds the files of t under base_path
TreeOf(t) ==
    [f \in { Join(base_path, p) : p \in DOMAIN t } |->
        t[SubSeq(f, Len(base_path) + 1, Len(f))]]

\* the archive and the directory hold the same named files, same contents
Equivalent ==
    /\ \A i \in 1 .. Len(archive) :
          /\ Join(base_path, archive[i].name) \in DOMAIN fs
          /\ fs[Join(base_path, archive[i].name)] = archive[i].data
    /\ \A f \in DOMAIN fs :
          \E i \in 1 .. Len(archive) : Join(base_path, archive[i].name) = f
    /\ \A i, j \in 1 .. Len(archive) :
          archive[i].name = archive[j].name => i = j

---------------------------------------------------------------------------
(* The components at rest *)

ReadIdle ==
    /\ strictRes = NoCall
    /\ looseRes = NoCall
    /\ collRes = NoCall

NoMap == [k \in {} |-> <<>>]

PrefixIdle ==
    /\ collections =
          [vehicle_journeys |-> [objects |-> <<>>, id_to_idx |-> EmptyMap],
           frequencies |-> <<>>,
           stop_time_headsigns |-> NoMap,
           stop_time_ids |-> NoMap,
           stop_time_comments |-> NoMap]
    /\ call = NoCall
    /\ before = collections
    /\ pc = "idle"
    /\ prefix = <<>>
    /\ indexes = <<>>
    /\ next = 0

ModeIdle ==
    /\ netex_modes = {}
    /\ modeRes = NoCall
    /\ highestRes = NoCall

FileIdle ==
    /\ fs = EmptyMap
    /\ archive = <<>>
    /\ index_by_name = EmptyMap
    /\ pathRes = NoCall
    /\ zipRes = NoCall

---------------------------------------------------------------------------
(* Strings, as lists of characters *)

RECURSIVE TrimStart(_)
TrimStart(s) == IF s # <<>> /\ Head(s) = " " THEN TrimStart(Tail(s)) ELSE s

RECURSIVE TrimEnd(_)
TrimEnd(s) ==
    IF s # <<>> /\ Last(s) = " " THEN TrimEnd(SubSeq(s, 1, Len(s) - 1)) ELSE s

\* csv::Trim::All on one field
Trim(s) == TrimEnd(TrimStart(s))

---------------------------------------------------------------------------
(* The typed record reader *)

\* the tabular file the readers are asked for
ObjectsFile == <<"objects.txt">>

\* the header row of the file: the fields of the record type, both required
Header == <<"id", "name">>

\* the data rows a file may hold: well-formed, padded with blanks, with a
\* field more than the header, or with a field less
FileRows ==
    { << <<"a">>, <<"x">> >>,
      << <<" ", "a">>, <<"y", " ">> >>,
      << <<"b">>, <<"x">> >>,
      << <<"b">>, <<"y">>, <<"x">> >>,
      << <<"a">> >>,
      << <<"b">> >> }

\* the contents of a tabular file: its data rows, in order
RowSeqs(n) == UNION { [1 .. k -> FileRows] : k \in 0 .. n }

\* csv's deserialize of row number line (flexible field count, every field
\* trimmed): a row shorter than the header misses a required field
Deserialize(rows, line) ==
    LET row == rows[line]
    IN  IF Len(row) < Len(Header)
        THEN Err([msg |-> "missing field", field |-> Header[Len(row) + 1],
                  line |-> line])
        ELSE Ok([id |-> Trim(row[1]), name |-> Trim(row[2])])

\* path.file_name().map_or(path.to_string_lossy(), |b| b.to_string_lossy())
Basename(path) ==
    IF file_name(path).some THEN <<file_name(path).value>> ELSE path

\* with_context(|| format!("Error reading {:?}", path))
ErrorReading(path, cause) ==
    [msg |-> "Error reading", path |-> path, cause |-> cause]

Info(msg, what) == [level |-> "info", msg |-> msg, what |-> what]
Warn(error) == [level |-> "warn", error |-> error]

\* Iterator::collect::<Result<Vec<_>, _>>(): the records of the rows from
\* line on, appended to acc, or the error of the first row that fails
RECURSIVE collect_result(_, _, _)
collect_result(rows, line, acc) ==
    IF line > Len(rows) THEN Ok(acc)
    ELSE LET object == Deserialize(rows, line)
         IN  IF object.ok
             THEN collect_result(rows, line + 1, Append(acc, object.value))
             ELSE object

\* skip_error_and_warn().collect(): the records of the rows that convert,
\* and one warning for every row that does not
RECURSIVE skip_error_and_warn(_, _, _, _)
skip_error_and_warn(rows, path, line, acc) ==
    IF line > Len(rows) THEN acc
    ELSE LET object == Deserialize(rows, line)
         IN  IF object.ok
             THEN skip_error_and_warn(rows, path, line + 1,
                     [acc EXCEPT !.objects = Append(@, object.value)])
             ELSE skip_error_and_warn(rows, path, line + 1,
                     [acc EXCEPT !.log =
                         Append(@, Warn(ErrorReading(path, object.error)))])

\* mutant: the strict reader keeps the rows read before the malformed one
read_objects_Partial(handler, file_name_, required_file) ==
    LET got == get_file_if_exists(handler, file_name_)
        reader == got.value.reader
        path == got.value.path
        basename == Basename(path)
    IN  IF ~got.ok THEN [result |-> got, log |-> <<>>]
        ELSE IF ~reader.some /\ ~required_file
        THEN [result |-> Ok(<<>>), log |-> <<Info("Skipping", basename)>>]
        ELSE IF ~reader.some
        THEN [result |-> Err(FileNotFound(path)), log |-> <<>>]
        ELSE [result |->
                 Ok(skip_error_and_warn(reader.value.data, path, 1,
                        [objects |-> <<>>, log |-> <<>>]).objects),
              log |-> <<Info("Reading", basename)>>]

read_objects(handler, file_name_, required_file) ==
    LET got == get_file_if_exists(handler, file_name_)
        reader == got.value.reader
        path == got.value.path
        basename == Basename(path)
    IN  IF ~got.ok THEN [result |-> got, log |-> <<>>]
        ELSE IF ~reader.some /\ ~required_file
        THEN [result |-> Ok(<<>>), log |-> <<Info("Skipping", basename)>>]
        ELSE IF ~reader.some
        THEN [result |-> Err(FileNotFound(path)), log |-> <<>>]
        ELSE LET objects == collect_result(reader.value.data, 1, <<>>)
             IN  [result |-> IF objects.ok THEN objects
                             ELSE Err(ErrorReading(path, objects.error)),
                  log |-> <<Info("Reading", basename)>>]

\* mutant: the lossy reader skips an absent file even when it is required
read_objects_loose_NeverRequired(handler, file_name_, required_file) ==
    LET got == get_file_if_exists(handler, file_name_)
        reader == got.value.reader
        path == got.value.path
        basename == Basename(path)
    IN  IF ~got.ok THEN [result |-> got, log |-> <<>>]
        ELSE IF ~reader.some
        THEN [result |-> Ok(<<>>), log |-> <<Info("Skipping", basename)>>]
        ELSE LET read == skip_error_and_warn(reader.value.data, path, 1,
                             [objects |-> <<>>, log |-> <<>>])
             IN  [result |-> Ok(read.objects),
                  log |-> <<Info("Reading", basename)>> \o read.log]

read_objects_loose(handler, file_name_, required_file) ==
    LET got == get_file_if_exists(handler, file_name_)
        reader == got.value.reader
        path == got.value.path
        basename == Basename(path)
    IN  IF ~got.ok THEN [result |-> got, log |-> <<>>]
        ELSE IF ~reader.some /\ ~required_file
        THEN [result |-> Ok(<<>>), log |-> <<Info("Skipping", basename)>>]
        ELSE IF ~reader.some
        THEN [result |-> Err(FileNotFound(path)), log |-> <<>>]
        ELSE LET read == skip_error_and_warn(reader.value.data, path, 1,
                             [objects |-> <<>>, log |-> <<>>])
             IN  [result |-> Ok(read.objects),
                  log |-> <<Info("Reading", basename)>> \o read.log]

---------------------------------------------------------------------------
(* The identified collection builder *)

\* CollectionWithId::new from the records i+1 .. of v, given the index of the
\* records before them: the index maps an identifier to a position counted
\* from 0; a second record with an indexed identifier is an error
RECURSIVE CollectionWithId_index(_, _, _)
CollectionWithId_index(v, i, id_to_idx) ==
    IF i >= Len(v) THEN Ok(id_to_idx)
    ELSE IF v[i + 1].id \in DOMAIN id_to_idx
    THEN Err([msg |-> "identifier already exists", id |-> v[i + 1].id])
    ELSE CollectionWithId_index(v, i + 1, MapInsert(id_to_idx, v[i + 1].id, i))

CollectionWithId_new(v) ==
    LET index == CollectionWithId_index(v, 0, EmptyMap)
    IN  IF index.ok
        THEN Ok([objects |-> v, id_to_idx |-> index.value])
        ELSE index

\* mutant: the required entry point reads its file as an optional one
read_collection_Optional(handler, file_name_) ==
    LET vec == read_objects(handler, file_name_, FALSE).result
    IN  IF ~vec.ok THEN vec ELSE CollectionWithId_new(vec.value)

read_collection(handler, file_name_) ==
    LET vec == read_objects(handler, file_name_, TRUE).result
    IN  IF ~vec.ok THEN vec ELSE CollectionWithId_new(vec.value)

read_opt_collection(handler, file_name_) ==
    LET vec == read_objects(handler, file_name_, FALSE).result
    IN  IF ~vec.ok THEN vec ELSE CollectionWithId_new(vec.value)

---------------------------------------------------------------------------
(* The reads: a dataset that holds the tabular file, or does not *)

Handlers == {"path", "zip"}

InitRead ==
    /\ \/ fs = EmptyMap /\ archive = <<>>
       \/ \E rows \in RowSeqs(MaxRows) :
             /\ fs = TreeOf([p \in {ObjectsFile} |-> rows])
             /\ archive =
                   <<[name |-> ObjectsFile, data |-> rows, opens |-> TRUE]>>
    /\ index_by_name = files_by_name(archive)
    /\ pathRes = NoCall
    /\ zipRes = NoCall
    /\ ReadIdle
    /\ PrefixIdle
    /\ ModeIdle

ReadObjects ==
    \E handler \in Handlers, required_file \in BOOLEAN :
        LET read == read_objects(handler, ObjectsFile, required_file)
        IN  /\ strictRes' = [op |-> "read_objects", handler |-> handler,
                             required |-> required_file,
                             result |-> read.result, log |-> read.log]
            /\ UNCHANGED <<fileVars, looseRes, collRes, prefixVars, modeVars>>

ReadObjectsLoose ==
    \E handler \in Handlers, required_file \in BOOLEAN :
        LET read == read_objects_loose(handler, ObjectsFile, required_file)
        IN  /\ looseRes' = [op |-> "read_objects_loose", handler |-> handler,
                            required |-> required_file,
                            result |-> read.result, log |-> read.log]
            /\ UNCHANGED <<fileVars, strictRes, collRes, prefixVars, modeVars>>

ReadCollection ==
    \E handler \in Handlers :
        /\ collRes' = [op |-> "read_collection", handler |-> handler,
                       result |-> read_collection(handler, ObjectsFile)]
        /\ UNCHANGED <<fileVars, strictRes, looseRes, prefixVars, modeVars>>

ReadOptCollection ==
    \E handler \in Handlers :
        /\ collRes' = [op |-> "read_opt_collection", handler |-> handler,
                       result |-> read_opt_collection(handler, ObjectsFile)]
        /\ UNCHANGED <<fileVars, strictRes, looseRes, prefixVars, modeVars>>

NextRead ==
    \/ ReadObjects
    \/ ReadObjectsLoose
    \/ ReadCollection
    \/ ReadOptCollection

SpecRead == InitRead /\ [][NextRead]_vars

InitFile ==
    /\ \E D \in SUBSET FilePaths :
          /\ Cardinality(D) <= MaxFiles
          /\ \E t \in [D -> FileContents] :
                /\ fs = TreeOf(t)
                /\ \E o \in Orderings(D) :
                      archive = [i \in 1 .. Len(o) |->
                                    [name |-> o[i], data |-> t[o[i]],
                                     opens |-> TRUE]]
    /\ index_by_name = files_by_name(archive)
    /\ pathRes = NoCall
    /\ zipRes = NoCall
    /\ ReadIdle
    /\ PrefixIdle
    /\ ModeIdle

---------------------------------------------------------------------------
(* The calls on the two file sources *)

PathGetFileIfExists ==
    \E name \in Names :
        /\ pathRes' = [op |-> "get_file_if_exists", name |-> name,
                       result |-> get_file_if_exists("path", name)]
        /\ UNCHANGED <<fs, archive, index_by_name, zipRes, readVars, prefixVars, modeVars>>

PathGetFile ==
    \E name \in Names :
        /\ pathRes' = [op |-> "get_file", name |-> name,
                       result |-> get_file("path", name)]
        /\ UNCHANGED <<fs, archive, index_by_name, zipRes, readVars, prefixVars, modeVars>>

ZipGetFileIfExists ==
    \E name \in Names :
        /\ zipRes' = [op |-> "get_file_if_exists", name |-> name,
                      result |-> get_file_if_exists("zip", name)]
        /\ UNCHANGED <<fs, archive, index_by_name, pathRes, readVars, prefixVars, modeVars>>

ZipGetFile ==
    \E name \in Names :
        /\ zipRes' = [op |-> "get_file", name |-> name,
                      result |-> get_file("zip", name)]
        /\ UNCHANGED <<fs, archive, index_by_name, pathRes, readVars, prefixVars, modeVars>>

NextFile ==
    \/ PathGetFileIfExists
    \/ PathGetFile
    \/ ZipGetFileIfExists
    \/ ZipGetFile

SpecFile == InitFile /\ [][NextFile]_vars

---------------------------------------------------------------------------
(* Identifier namespacing *)

\* the identifiers the records of a dataset carry
Ids == { <<"a">>, <<"b">>, <<"p", "a">> }

\* the namespace strings a caller gives, the empty one included
Prefixes == { <<>>, <<"p">> }

Separators == { <<":">> }

\* the sequence numbers and the values of the stop time maps
SequenceNumbers == {0, 1}
MapValues == { <<"a">>, <<"x">> }

\* an object's own add_prefix: its identifier is prefixed
Obj_add_prefix(obj, prefix_) == [obj EXCEPT !.id = prefix_ \o @]

\* mutant: the separator is put before the prefix
format_prefix_sep_Swapped(prefix_, sep) == sep \o prefix_

\* format!("{}{}", prefix, sep) of add_prefix_with_sep
format_prefix_sep(prefix_, sep) == prefix_ \o sep

\* impl AddPrefix for Collection<T>: every value, in place and in order
Collection_add_prefix(objects, prefix_) ==
    [i \in 1 .. Len(objects) |-> Obj_add_prefix(objects[i], prefix_)]

\* the positions of a CollectionWithId, in order, counted from 0
CollectionWithId_indexes(c) == [i \in 1 .. Len(c.objects) |-> i - 1]

\* the drop of the RefMut that index_mut returned: when the identifier has
\* changed, the old one leaves the index and the new one enters it; the new
\* one being indexed already is a panic
RefMut_drop(c, idx, old_id) ==
    LET id == c.objects[idx + 1].id
        removed == [k \in (DOMAIN c.id_to_idx) \ {old_id} |-> c.id_to_idx[k]]
    IN  IF id = old_id THEN [collection |-> c, panicked |-> FALSE]
        ELSE [collection |->
                 [c EXCEPT !.id_to_idx = MapInsert(removed, id, idx)],
              panicked |-> id \in DOMAIN removed]

\* mutant: the element is rewritten in place, not through index_mut
CollectionWithId_add_prefix_at_Direct(c, idx, prefix_) ==
    [collection |-> [c EXCEPT !.objects[idx + 1] = Obj_add_prefix(@, prefix_)],
     panicked |-> FALSE]

\* self.index_mut(index).add_prefix(prefix): one iteration of the loop of
\* impl AddPrefix for CollectionWithId<T>
CollectionWithId_add_prefix_at(c, idx, prefix_) ==
    LET old_id == c.objects[idx + 1].id
    IN  RefMut_drop([c EXCEPT !.objects[idx + 1] = Obj_add_prefix(@, prefix_)],
                    idx, old_id)

\* mutant: the sequence number of the key is dropped
add_prefix_on_vehicle_journey_ids_NoSequence(vehicle_journey_ids, prefix_) ==
    LET key(k) == <<prefix_ \o k[1], 0>>
    IN  [nk \in { key(k) : k \in DOMAIN vehicle_journey_ids } |->
            vehicle_journey_ids[
                CHOOSE k \in DOMAIN vehicle_journey_ids : key(k) = nk]]

\* the HashMap collected from the rewritten entries: an entry for every
\* rewritten key, with the value of an entry rewritten to that key
add_prefix_on_vehicle_journey_ids(vehicle_journey_ids, prefix_) ==
    LET key(k) == <<prefix_ \o k[1], k[2]>>
    IN  [nk \in { key(k) : k \in DOMAIN vehicle_journey_ids } |->
            vehicle_journey_ids[
                CHOOSE k \in DOMAIN vehicle_journey_ids : key(k) = nk]]

add_prefix_on_vehicle_journey_ids_and_values(vehicle_journey_ids, prefix_) ==
    LET key(k) == <<prefix_ \o k[1], k[2]>>
    IN  [nk \in { key(k) : k \in DOMAIN vehicle_journey_ids } |->
            prefix_ \o vehicle_journey_ids[
                CHOOSE k \in DOMAIN vehicle_journey_ids : key(k) = nk]]

---------------------------------------------------------------------------
(* The datasets that are namespaced *)

HasDuplicateId(v) == \E i, j \in 1 .. Len(v) : i < j /\ v[i].id = v[j].id

\* the records of a collection: any, or with identifiers all different
ObjSeqs(n) == UNION { [1 .. k -> [id : Ids]] : k \in 0 .. n }
UniqueObjSeqs(n) == { v \in ObjSeqs(n) : ~HasDuplicateId(v) }

\* the stop time maps of at most n entries, keyed by (identifier, sequence)
StopTimeMaps(n) ==
    UNION { [K -> MapValues] :
              K \in { K \in SUBSET ({<<"a">>, <<"p", "a">>} \X SequenceNumbers) :
                        Cardinality(K) <= n } }

\* a dataset after ingestion: the identified collection was built by
\* CollectionWithId::new
DatasetOf(vj, fr, headsigns, ids, comments) ==
    [vehicle_journeys |-> CollectionWithId_new(vj).value,
     frequencies |-> fr,
     stop_time_headsigns |-> headsigns,
     stop_time_ids |-> ids,
     stop_time_comments |-> comments]

PrefixStart ==
    /\ call = NoCall
    /\ before = collections
    /\ pc = "idle"
    /\ prefix = <<>>
    /\ indexes = <<>>
    /\ next = 0

\* datasets with any collections and one stop time entry
InitPrefix ==
    /\ FileIdle
    /\ ReadIdle
    /\ \E vj \in UniqueObjSeqs(MaxLen), fr \in ObjSeqs(MaxLen) :
          collections =
              DatasetOf(vj, fr,
                        [k \in {<< <<"a">>, 0 >>} |-> <<"x">>],
                        [k \in {<< <<"a">>, 0 >>} |-> <<"a">>],
                        NoMap)
    /\ PrefixStart
    /\ ModeIdle

\* datasets with any stop time headsigns and identifiers, and one vehicle
\* journey
InitMaps ==
    /\ FileIdle
    /\ ReadIdle
    /\ \E headsigns \in StopTimeMaps(MaxEntries),
          ids \in StopTimeMaps(MaxEntries),
          comments \in {NoMap, [k \in {<< <<"p", "a">>, 1 >>} |-> <<"x">>]} :
          collections =
              DatasetOf(<<[id |-> <<"a">>]>>, <<>>, headsigns, ids, comments)
    /\ PrefixStart
    /\ ModeIdle

---------------------------------------------------------------------------
(* Collections::add_prefix, collection after collection *)

\* Collections::add_prefix(prefix) begins: the first collection, an
\* identified one, captures its positions
AddPrefix ==
    \E p \in Prefixes :
        /\ pc = "idle"
        /\ call' = [op |-> "add_prefix", prefix |-> p, sep |-> <<>>]
        /\ before' = collections
        /\ prefix' = p
        /\ indexes' = CollectionWithId_indexes(collections.vehicle_journeys)
        /\ next' = 0
        /\ pc' = "vehicle_journeys"
        /\ UNCHANGED <<collections, fileVars, readVars, modeVars>>

\* Collections::add_prefix_with_sep(prefix, sep): add_prefix begins with the
\* prefix followed by the separator
AddPrefixWithSep ==
    \E p \in Prefixes, sep \in Separators :
        /\ pc = "idle"
        /\ call' = [op |-> "add_prefix_with_sep", prefix |-> p, sep |-> sep]
        /\ before' = collections
        /\ prefix' = format_prefix_sep(p, sep)
        /\ indexes' = CollectionWithId_indexes(collections.vehicle_journeys)
        /\ next' = 0
        /\ pc' = "vehicle_journeys"
        /\ UNCHANGED <<collections, fileVars, readVars, modeVars>>

\* one iteration over the captured positions
VehicleJourneysStep ==
    /\ pc = "vehicle_journeys"
    /\ next < Len(indexes)
    /\ LET step == CollectionWithId_add_prefix_at(
                       collections.vehicle_journeys, indexes[next + 1], prefix)
       IN  /\ collections' =
                 [collections EXCEPT !.vehicle_journeys = step.collection]
           /\ pc' = IF step.panicked THEN "panicked" ELSE pc
    /\ next' = next + 1
    /\ UNCHANGED <<call, before, prefix, indexes, fileVars, readVars, modeVars>>

\* the identified collection is done; the plain collection is rewritten
Frequencies ==
    /\ pc = "vehicle_journeys"
    /\ next = Len(indexes)
    /\ collections' =
          [collections EXCEPT
              !.frequencies = Collection_add_prefix(@, prefix)]
    /\ pc' = "stop_times"
    /\ UNCHANGED <<call, before, prefix, indexes, next, fileVars, readVars, modeVars>>

\* the three stop time maps are replaced
StopTimes ==
    /\ pc = "stop_times"
    /\ collections' =
          [collections EXCEPT
              !.stop_time_headsigns =
                  add_prefix_on_vehicle_journey_ids(@, prefix),
              !.stop_time_ids =
                  add_prefix_on_vehicle_journey_ids_and_values(@, prefix),
              !.stop_time_comments =
                  add_prefix_on_vehicle_journey_ids_and_values(@, prefix)]
    /\ pc' = "done"
    /\ UNCHANGED <<call, before, prefix, indexes, next, fileVars, readVars, modeVars>>

NextPrefix ==
    \/ AddPrefix
    \/ AddPrefixWithSep
    \/ VehicleJourneysStep
    \/ Frequencies
    \/ StopTimes

SpecPrefix == InitPrefix /\ [][NextPrefix]_vars

SpecMaps == InitMaps /\ [][NextPrefix]_vars

---------------------------------------------------------------------------
(* NetexMode *)

Air == 1
Water == 2
Rail == 3
Metro == 4
Tram == 5
Funicular == 6
Cableway == 7
Coach == 8
Bus == 9

NetexMode ==
    {Air, Water, Rail, Metro, Tram, Funicular, Cableway, Coach, Bus}

\* the physical mode labels of the table
KnownLabels ==
    { "Air", "Boat", "Bus", "BusRapidTransit", "Coach", "Ferry", "Funicular",
      "LocalTrain", "LongDistanceTrain", "Metro", "RapidTransit",
      "RailShuttle", "Shuttle", "SuspendedCableCar", "Train", "Tramway" }

\* the labels a caller gives: those of the table and some others
Labels == KnownLabels \cup { "", "bus", "Taxi", "Bike", "Cableway", "Water" }

\* the warning of an unsupported physical mode
NotSupported(mode) ==
    [level |-> "warn",
     msg |-> "Physical Mode is not supported for NeTEx France export.",
     mode |-> mode]

\* mutant: the arm of Shuttle gives the category of RailShuttle
from_physical_mode_id_ShuttleRail(physical_mode_id) ==
    CASE physical_mode_id = "Air" -> [result |-> Some(Air), log |-> <<>>]
      [] physical_mode_id = "Boat" -> [result |-> Some(Water), log |-> <<>>]
      [] physical_mode_id = "Bus" -> [result |-> Some(Bus), log |-> <<>>]
      [] physical_mode_id = "BusRapidTransit" ->
            [result |-> Some(Bus), log |-> <<>>]
      [] physical_mode_id = "Coach" -> [result |-> Some(Coach), log |-> <<>>]
      [] physical_mode_id = "Ferry" -> [result |-> Some(Water), log |-> <<>>]
      [] physical_mode_id = "Funicular" ->
            [result |-> Some(Funicular), log |-> <<>>]
      [] physical_mode_id = "LocalTrain" ->
            [result |-> Some(Rail), log |-> <<>>]
      [] physical_mode_id = "LongDistanceTrain" ->
            [result |-> Some(Rail), log |-> <<>>]
      [] physical_mode_id = "Metro" -> [result |-> Some(Metro), log |-> <<>>]
      [] physical_mode_id = "RapidTransit" ->
            [result |-> Some(Rail), log |-> <<>>]
      [] physical_mode_id = "RailShuttle" ->
            [result |-> Some(Rail), log |-> <<>>]
      [] physical_mode_id = "Shuttle" -> [result |-> Some(Rail), log |-> <<>>]
      [] physical_mode_id = "SuspendedCableCar" ->
            [result |-> Some(Cableway), log |-> <<>>]
      [] physical_mode_id = "Train" -> [result |-> Some(Rail), log |-> <<>>]
      [] physical_mode_id = "Tramway" -> [result |-> Some(Tram), log |-> <<>>]
      [] OTHER ->
            [result |-> None, log |-> <<NotSupported(physical_mode_id)>>]

from_physical_mode_id(physical_mode_id) ==
    CASE physical_mode_id = "Air" -> [result |-> Some(Air), log |-> <<>>]
      [] physical_mode_id = "Boat" -> [result |-> Some(Water), log |-> <<>>]
      [] physical_mode_id = "Bus" -> [result |-> Some(Bus), log |-> <<>>]
      [] physical_mode_id = "BusRapidTransit" ->
            [result |-> Some(Bus), log |-> <<>>]
      [] physical_mode_id = "Coach" -> [result |-> Some(Coach), log |-> <<>>]
      [] physical_mode_id = "Ferry" -> [result |-> Some(Water), log |-> <<>>]
      [] physical_mode_id = "Funicular" ->
            [result |-> Some(Funicular), log |-> <<>>]
      [] physical_mode_id = "LocalTrain" ->
            [result |-> Some(Rail), log |-> <<>>]
      [] physical_mode_id = "LongDistanceTrain" ->
            [result |-> Some(Rail), log |-> <<>>]
      [] physical_mode_id = "Metro" -> [result |-> Some(Metro), log |-> <<>>]
      [] physical_mode_id = "RapidTransit" ->
            [result |-> Some(Rail), log |-> <<>>]
      [] physical_mode_id = "RailShuttle" ->
            [result |-> Some(Rail), log |-> <<>>]
      [] physical_mode_id = "Shuttle" -> [result |-> Some(Bus), log |-> <<>>]
      [] physical_mode_id = "SuspendedCableCar" ->
            [result |-> Some(Cableway), log |-> <<>>]
      [] physical_mode_id = "Train" -> [result |-> Some(Rail), log |-> <<>>]
      [] physical_mode_id = "Tramway" -> [result |-> Some(Tram), log |-> <<>>]
      [] OTHER ->
            [result |-> None, log |-> <<NotSupported(physical_mode_id)>>]

\* mutant: the last mode of the ordered set is taken
calculate_highest_mode_Last(modes) ==
    IF modes = {} THEN None
    ELSE Some(CHOOSE m \in modes : \A n \in modes : n <= m)

\* netex_modes.iter().next().cloned(): the first mode of the BTreeSet, which
\* is ordered by the derived Ord of the enumeration
calculate_highest_mode(modes) ==
    IF modes = {} THEN None
    ELSE Some(CHOOSE m \in modes : \A n \in modes : m <= n)

InitMode ==
    /\ FileIdle
    /\ ReadIdle
    /\ PrefixIdle
    /\ netex_modes \in SUBSET NetexMode
    /\ modeRes = NoCall
    /\ highestRes = NoCall

FromPhysicalModeId ==
    \E physical_mode_id \in Labels :
        LET got == from_physical_mode_id(physical_mode_id)
        IN  /\ modeRes' = [op |-> "from_physical_mode_id",
                           physical_mode_id |-> physical_mode_id,
                           result |-> got.result, log |-> got.log]
            /\ UNCHANGED <<netex_modes, highestRes,
                           fileVars, readVars, prefixVars>>

CalculateHighestMode ==
    /\ highestRes' = [op |-> "calculate_highest_mode",
                      result |-> calculate_highest_mode(netex_modes)]
    /\ UNCHANGED <<netex_modes, modeRes, fileVars, readVars, prefixVars>>

NextMode ==
    \/ FromPhysicalModeId
    \/ CalculateHighestMode

SpecMode == InitMode /\ [][NextMode]_vars

---------------------------------------------------------------------------
(* The archive source over any archive *)

\* the names of the entries of an archive: base names met at several depths,
\* and names without a final component
EntryNames ==
    { <<"hello.txt">>, <<"folder", "hello.txt">>, <<"world.txt">>,
      <<"folder", "..">>, <<>> }

\* an entry that by_index opens, with its data, or one that it does not open
Entries ==
    [name : EntryNames, data : FileContents, opens : {TRUE}]
        \cup [name : EntryNames, data : {""}, opens : {FALSE}]

\* the names asked of the archive source
ZipNames == { <<"hello.txt">>, <<"world.txt">>, <<"folder", "hello.txt">>,
              <<"..">>, <<>> }

\* a valid archive of any entries, its handler not constructed yet
InitZip ==
    /\ fs = EmptyMap
    /\ archive \in UNION { [1 .. n -> Entries] : n \in 0 .. MaxArchive }
    /\ index_by_name = EmptyMap
    /\ pathRes = NoCall
    /\ zipRes = NoCall
    /\ ReadIdle
    /\ PrefixIdle
    /\ ModeIdle

\* ZipHandler::new on the archive
ZipHandlerNew ==
    /\ zipRes = NoCall
    /\ index_by_name' = files_by_name(archive)
    /\ zipRes' = [op |-> "new", name |-> archive_path,
                  result |-> Ok([index_by_name |-> files_by_name(archive),
                                 archive_path |-> archive_path])]
    /\ UNCHANGED <<fs, archive, pathRes, readVars, prefixVars, modeVars>>

\* get_file_if_exists on the handler that was constructed
ZipHandlerGetFileIfExists ==
    /\ zipRes # NoCall
    /\ \E name \in ZipNames :
          zipRes' = [op |-> "get_file_if_exists", name |-> name,
                     result |-> get_file_if_exists("zip", name)]
    /\ UNCHANGED <<fs, archive, index_by_name, pathRes,
                   readVars, prefixVars, modeVars>>

NextZip ==
    \/ ZipHandlerNew
    \/ ZipHandlerGetFileIfExists

SpecZip == InitZip /\ [][NextZip]_vars

---------------------------------------------------------------------------
(* Claims on the file sources *)

IsGetFileIfExists(res) == res.op = "get_file_if_exists"
IsGetFile(res) == res.op = "get_file"

Found(res) == res.result.ok /\ res.result.value.reader.some

\* two results of get_file_if_exists: same found/not-found outcome and, when
\* found, the same stream content
SameOutcome(a, b) ==
    /\ a.ok = b.ok
    /\ a.ok => /\ a.value.reader.some = b.value.reader.some
               /\ a.value.reader.some =>
                     a.value.reader.value = b.value.reader.value

\* a file stored in a sub-folder has this base name
NestedBaseName(b) ==
    \E q \in DOMAIN fs : Last(q) = b /\ q # Join(base_path, <<b>>)

\* the name designates a folder of the directory
IsFolder(name) ==
    Exists(Join(base_path, name)) /\ Join(base_path, name) \notin DOMAIN fs

\* C1 as stated: for a directory and the equivalent archive, the two sources
\* give, for every requested name (names with a sub-folder component
\* included), the same found/not-found outcome and the same content.
C1_UniformAccess_AnyName ==
    (/\ Equivalent
     /\ IsGetFileIfExists(pathRes) /\ IsGetFileIfExists(zipRes)
     /\ pathRes.name = zipRes.name)
        => SameOutcome(pathRes.result, zipRes.result)

\* C1 amended: the two sources agree (outcome and content) on every requested
\* name that is a plain base name, designates no folder and is not the base
\* name of a file stored in a sub-folder; the archive source never finds a
\* name that has a sub-folder component.
C1_UniformAccess_BaseNames ==
    /\ (/\ Equivalent
        /\ IsGetFileIfExists(pathRes) /\ IsGetFileIfExists(zipRes)
        /\ pathRes.name = zipRes.name
        /\ Len(pathRes.name) = 1
        /\ ~NestedBaseName(pathRes.name[1])
        /\ ~IsFolder(pathRes.name))
           => SameOutcome(pathRes.result, zipRes.result)
    /\ (IsGetFileIfExists(zipRes) /\ Len(zipRes.name) > 1) => ~Found(zipRes)

\* C1 witness: both sources were asked for the same plain base name in a
\* dataset that also holds a file in a sub-folder, and both found the file.
C1_Witness ==
    /\ IsGetFileIfExists(pathRes) /\ IsGetFileIfExists(zipRes)
    /\ pathRes.name = zipRes.name
    /\ Len(pathRes.name) = 1
    /\ ~NestedBaseName(pathRes.name[1])
    /\ \E q \in DOMAIN fs : Len(q) > Len(base_path) + 1
    /\ Found(pathRes) /\ Found(zipRes)
    /\ pathRes.result.value.reader.value.kind = "file"

RootOf(handler) == IF handler = "path" THEN base_path ELSE archive_path

\* the found / not-found contract of one source, on its last call
FoundContract(handler, res) ==
    /\ IsGetFileIfExists(res) =>
          /\ res.result.ok
          /\ res.result.value.path = Join(RootOf(handler), res.name)
    /\ IsGetFile(res) =>
          LET probe == get_file_if_exists(handler, res.name)
          IN  /\ res.result.ok <=> (probe.ok /\ probe.value.reader.some)
              /\ res.result.ok =>
                    /\ res.result.value.reader = probe.value.reader.value
                    /\ res.result.value.path = Join(RootOf(handler), res.name)
              /\ ~res.result.ok =>
                    res.result.error =
                        FileNotFound(Join(RootOf(handler), res.name))

---------------------------------------------------------------------------
(* Claims on the typed record reader and the collection builder *)

\* the tabular file is in the dataset
FilePresent == Join(base_path, ObjectsFile) \in DOMAIN fs

\* its data rows
FileData == fs[Join(base_path, ObjectsFile)]

IsOkResult(r) == r.ok

\* the outcome of the conversion of every row, in file order
Conversions == [line \in 1 .. Len(FileData) |-> Deserialize(FileData, line)]

\* the records of the rows that convert, in file order
ConvertedRecords ==
    LET good == SelectSeq(Conversions, IsOkResult)
    IN  [k \in 1 .. Len(good) |-> good[k].value]

MalformedLines == { line \in 1 .. Len(FileData) : ~Conversions[line].ok }

Warnings(log) == SelectSeq(log, LAMBDA entry : entry.level = "warn")

Called(res) == res.op # "none"

\* a reader's answer on an absent file
AbsentContract(res) ==
    (Called(res) /\ ~FilePresent) =>
        IF res.required
        THEN /\ ~res.result.ok
             /\ res.result.error =
                   FileNotFound(Join(RootOf(res.handler), ObjectsFile))
        ELSE /\ res.result = Ok(<<>>)
             /\ Warnings(res.log) = <<>>

\* C2: on an absent file read_objects and read_objects_loose both return an
\* empty sequence and no error when the file is optional, both fail with a
\* missing-file error naming the file's path when it is required, and the
\* two behave identically.
C2_OptionalVsRequired ==
    /\ AbsentContract(strictRes)
    /\ AbsentContract(looseRes)
    /\ (/\ Called(strictRes) /\ Called(looseRes) /\ ~FilePresent
        /\ strictRes.handler = looseRes.handler
        /\ strictRes.required = looseRes.required)
           => /\ strictRes.result = looseRes.result
              /\ strictRes.log = looseRes.log

\* C2 witness: on an absent file, the strict reader was asked for a required
\* file and failed, the lossy reader for an optional one and returned nothing.
C2_Witness ==
    /\ ~FilePresent
    /\ Called(strictRes) /\ strictRes.required /\ ~strictRes.result.ok
    /\ Called(looseRes) /\ ~looseRes.required /\ looseRes.result.ok

\* C3: on a present file of N convertible and M malformed rows, in any
\* interleaving, read_objects_loose succeeds with exactly the N converted
\* records in file order and M warnings; read_objects fails, with an error
\* that wraps the file path and no partial result, on the first malformed
\* row when M > 0, and returns the same N records when M = 0.
C3_LossyVsStrict ==
    /\ (Called(looseRes) /\ FilePresent) =>
          /\ looseRes.result = Ok(ConvertedRecords)
          /\ Len(looseRes.result.value) =
                Len(FileData) - Cardinality(MalformedLines)
          /\ Len(Warnings(looseRes.log)) = Cardinality(MalformedLines)
    /\ (Called(strictRes) /\ FilePresent) =>
          IF MalformedLines # {}
          THEN /\ ~strictRes.result.ok
               /\ strictRes.result.error.msg = "Error reading"
               /\ strictRes.result.error.path =
                     Join(RootOf(strictRes.handler), ObjectsFile)
               /\ \A line \in MalformedLines :
                     strictRes.result.error.cause.line <= line
               /\ strictRes.result.error.cause.line \in MalformedLines
          ELSE strictRes.result = Ok(ConvertedRecords)

\* C3 witness: both readers read a file whose malformed row stands between
\* two convertible rows.
C3_Witness ==
    /\ FilePresent
    /\ Len(FileData) = 3 /\ MalformedLines = {2}
    /\ Called(looseRes) /\ Len(looseRes.result.value) = 2
    /\ Len(Warnings(looseRes.log)) = 1
    /\ Called(strictRes) /\ ~strictRes.result.ok

HasDuplicate(v) == \E i, j \in 1 .. Len(v) : i < j /\ v[i].id = v[j].id

\* C4: read_collection and read_opt_collection fail with a duplicate
\* identifier error whenever two of the records read share an identifier, at
\* any positions; when they succeed the collection holds every record read;
\* on an absent file read_opt_collection gives an empty collection and
\* read_collection fails.
C4_DuplicateRejection ==
    /\ (Called(collRes) /\ FilePresent /\ MalformedLines = {}) =>
          IF HasDuplicate(ConvertedRecords)
          THEN /\ ~collRes.result.ok
               /\ collRes.result.error.msg = "identifier already exists"
               /\ \E i, j \in 1 .. Len(ConvertedRecords) :
                     /\ i < j
                     /\ ConvertedRecords[i].id = collRes.result.error.id
                     /\ ConvertedRecords[j].id = collRes.result.error.id
          ELSE /\ collRes.result.ok
               /\ collRes.result.value.objects = ConvertedRecords
               /\ \A i \in 1 .. Len(ConvertedRecords) :
                     /\ ConvertedRecords[i].id
                           \in DOMAIN collRes.result.value.id_to_idx
                     /\ collRes.result.value.id_to_idx[ConvertedRecords[i].id]
                           = i - 1
    /\ (Called(collRes) /\ FilePresent /\ collRes.result.ok) =>
          Len(collRes.result.value.objects) = Len(FileData)
    /\ (Called(collRes) /\ ~FilePresent) =>
          IF collRes.op = "read_opt_collection"
          THEN collRes.result = Ok([objects |-> <<>>, id_to_idx |-> EmptyMap])
          ELSE /\ ~collRes.result.ok
               /\ collRes.result.error.msg = "file not found"

\* C4 witness: a file of three convertible rows whose first and last rows
\* carry the same identifier was rejected as a duplicate.
C4_Witness ==
    /\ FilePresent /\ Len(FileData) = 3 /\ MalformedLines = {}
    /\ ConvertedRecords[1].id = ConvertedRecords[3].id
    /\ ConvertedRecords[1].id # ConvertedRecords[2].id
    /\ Called(collRes) /\ ~collRes.result.ok
    /\ collRes.result.error.msg = "identifier already exists"

---------------------------------------------------------------------------
(* Claims on identifier namespacing *)

\* the namespace the caller asked for: P, or P followed by the separator
Namespace == call.prefix \o call.sep

\* the records of now are those of then, each identifier behind the namespace
Prefixed(now, then) ==
    /\ Len(now) = Len(then)
    /\ \A i \in 1 .. Len(then) : now[i].id = Namespace \o then[i].id

VehicleJourneysDone == pc \in {"stop_times", "done"}
FrequenciesDone == pc \in {"stop_times", "done"}

PrefixedKey(k) == <<prefix \o k[1], k[2]>>

\* now is then with every key's identifier prefixed, same sequence number
KeysPrefixed(now, then) ==
    /\ DOMAIN now = { PrefixedKey(k) : k \in DOMAIN then }
    /\ Cardinality(DOMAIN now) = Cardinality(DOMAIN then)

\* C6: add_prefix_on_vehicle_journey_ids returns exactly the map
\* ((P+id, seq) -> v) of the entries ((id, seq) -> v), and
\* add_prefix_on_vehicle_journey_ids_and_values exactly ((P+id, seq) -> P+v):
\* identifiers prefixed, sequence numbers unchanged, values prefixed in the
\* value variant only, as many entries as before.
C6_CompositeKeys ==
    pc = "done" =>
        /\ KeysPrefixed(collections.stop_time_headsigns,
                        before.stop_time_headsigns)
        /\ \A k \in DOMAIN before.stop_time_headsigns :
              collections.stop_time_headsigns[PrefixedKey(k)] =
                  before.stop_time_headsigns[k]
        /\ KeysPrefixed(collections.stop_time_ids, before.stop_time_ids)
        /\ \A k \in DOMAIN before.stop_time_ids :
              collections.stop_time_ids[PrefixedKey(k)] =
                  prefix \o before.stop_time_ids[k]
        /\ KeysPrefixed(collections.stop_time_comments,
                        before.stop_time_comments)
        /\ \A k \in DOMAIN before.stop_time_comments :
              collections.stop_time_comments[PrefixedKey(k)] =
                  prefix \o before.stop_time_comments[k]

\* C6 witness: maps of two entries that differ by the sequence number alone,
\* or by the identifier alone, were rewritten with a non-empty prefix.
C6_Witness ==
    /\ pc = "done" /\ prefix # <<>>
    /\ DOMAIN before.stop_time_headsigns =
          { << <<"a">>, 0 >>, << <<"a">>, 1 >> }
    /\ DOMAIN before.stop_time_ids =
          { << <<"a">>, 1 >>, << <<"p", "a">>, 1 >> }
    /\ Cardinality(DOMAIN collections.stop_time_headsigns) = 2
    /\ Cardinality(DOMAIN collections.stop_time_ids) = 2

\* an iteration of the pass over the identified collection has just ended
JustRewritten == pc \in {"vehicle_journeys", "panicked"} /\ next > 0

\* the position of the element just rewritten
RewrittenAt == indexes[next]

Lookup(id) ==
    IF id \in DOMAIN collections.vehicle_journeys.id_to_idx
    THEN Some(collections.vehicle_journeys.id_to_idx[id])
    ELSE None

\* the element just rewritten is where it was and its new identifier is
\* looked up at that position
NewIdentifierIndexed ==
    JustRewritten =>
        LET at == RewrittenAt
            obj == collections.vehicle_journeys.objects[at + 1]
        IN  /\ obj.id = prefix \o before.vehicle_journeys.objects[at + 1].id
            /\ Lookup(obj.id) = Some(at)

\* the old identifier of the element just rewritten is not mapped to it
OldIdentifierUnmapped ==
    JustRewritten =>
        Lookup(before.vehicle_journeys.objects[RewrittenAt + 1].id)
            # Some(RewrittenAt)

\* the pass over the identified collection has ended
PassEnded ==
    \/ pc = "vehicle_journeys" /\ next = Len(indexes)
    \/ pc \in {"stop_times", "done"}

\* at the end the identifiers are unique and each is mapped to its position
IndexConsistentAtEnd ==
    PassEnded =>
        LET c == collections.vehicle_journeys
        IN  /\ ~HasDuplicateId(c.objects)
            /\ DOMAIN c.id_to_idx = { c.objects[i].id : i \in 1 .. Len(c.objects) }
            /\ \A i \in 1 .. Len(c.objects) : c.id_to_idx[c.objects[i].id] = i - 1

---------------------------------------------------------------------------
(* Claims on the mode classification *)

\* the documented category of a label of the table
Documented(label) ==
    CASE label \in {"Air"} -> Air
      [] label \in {"Boat", "Ferry"} -> Water
      [] label \in {"Bus", "BusRapidTransit", "Shuttle"} -> Bus
      [] label \in {"Coach"} -> Coach
      [] label \in {"Funicular"} -> Funicular
      [] label \in {"LocalTrain", "LongDistanceTrain", "RapidTransit",
                    "RailShuttle", "Train"} -> Rail
      [] label \in {"Metro"} -> Metro
      [] label \in {"SuspendedCableCar"} -> Cableway
      [] label \in {"Tramway"} -> Tram

\* C7: from_physical_mode_id maps each of the 16 labels to its documented
\* category and any other label to no mapping with exactly one warning that
\* names the label; a warning is emitted if and only if there is no mapping.
C7_ModeMappingClosure ==
    Called(modeRes) =>
        /\ modeRes.physical_mode_id \in KnownLabels =>
              modeRes.result = Some(Documented(modeRes.physical_mode_id))
        /\ modeRes.physical_mode_id \notin KnownLabels =>
              /\ modeRes.result = None
              /\ modeRes.log = <<NotSupported(modeRes.physical_mode_id)>>
        /\ (modeRes.log # <<>>) <=> (modeRes.result = None)
        /\ Cardinality(KnownLabels) = 16

\* C7 witness: a label that differs from a listed one by its case alone was
\* given and got no mapping and a warning.
C7_Witness ==
    /\ Called(modeRes)
    /\ modeRes.physical_mode_id = "bus"
    /\ modeRes.result = None
    /\ Len(modeRes.log) = 1

\* the modes from the highest priority to the lowest
Priority ==
    <<Air, Water, Rail, Metro, Tram, Funicular, Cableway, Coach, Bus>>

Rank(mode) == CHOOSE i \in 1 .. Len(Priority) : Priority[i] = mode

\* C8: calculate_highest_mode returns no mode if and only if the set is
\* empty, and otherwise the member of the set that comes first in the order
\* Air < Water < Rail < Metro < Tram < Funicular < Cableway < Coach < Bus.
C8_ModePriority ==
    Called(highestRes) =>
        /\ (highestRes.result = None) <=> (netex_modes = {})
        /\ netex_modes # {} =>
              /\ highestRes.result.value \in netex_modes
              /\ \A m \in netex_modes :
                    Rank(highestRes.result.value) <= Rank(m)
        /\ netex_modes = {Bus, Rail, Air} => highestRes.result = Some(Air)
        /\ netex_modes = {Funicular, Cableway} =>
              highestRes.result = Some(Funicular)

\* C8 witness: the highest mode of {Bus, Rail, Air} was computed and is Air.
C8_Witness ==
    /\ Called(highestRes)
    /\ netex_modes = {Bus, Rail, Air}
    /\ highestRes.result = Some(Air)

---------------------------------------------------------------------------
(* Claims on the base-name index of the archive source *)

\* the handler of the archive was constructed
Constructed == zipRes # NoCall

\* the indexes of the entries whose name ends in the base name b
Sharing(b) ==
    { i \in 0 .. Len(archive) - 1 : file_name(archive[i + 1].name) = Some(b) }

\* those of them that by_index opens
SharingOpened(b) == { i \in Sharing(b) : archive[i + 1].opens }

\* the base names of the entries of the set of indexes I
BaseNamesOf(I) ==
    { file_name(archive[i + 1].name).value :
        i \in { j \in I : file_name(archive[j + 1].name).some } }

AllEntries == 0 .. Len(archive) - 1

OpenedEntries == { i \in AllEntries : archive[i + 1].opens }

Highest(I) == CHOOSE i \in I : \A j \in I : j <= i

\* the index holds exactly the base names of the entries of I, each mapped
\* to the highest index of its entries given by among(b), and a lookup of
\* such a name gives the data of that entry
IndexIsLastOf(I, among(_)) ==
    /\ DOMAIN index_by_name = { <<b>> : b \in BaseNamesOf(I) }
    /\ \A b \in BaseNamesOf(I) : index_by_name[<<b>>] = Highest(among(b))
    /\ zipRes.op = "get_file_if_exists" =>
          /\ zipRes.result.ok
          /\ zipRes.result.value.reader.some <=>
                \E b \in BaseNamesOf(I) : zipRes.name = <<b>>
          /\ \A b \in BaseNamesOf(I) :
                zipRes.name = <<b>> =>
                    zipRes.result.value.reader.value.data =
                        archive[Highest(among(b)) + 1].data

\* construction gave a handler
ConstructionOk == zipRes.op = "new" => zipRes.result.ok

\* C11 as stated: once the handler is constructed, which never fails, every
\* base name of an entry is mapped to one index, the highest index of the
\* entries sharing that base name, which is the entry get_file_if_exists
\* gives, and the entries without a base name are not in the index.
C11_LastWins_AnyEntry ==
    Constructed => ConstructionOk /\ IndexIsLastOf(AllEntries, Sharing)

\* C11: once the handler is constructed, which never fails, every base name
\* of an entry that can be opened is mapped to one index, the highest index
\* of the entries sharing that base name that can be opened, which is the
\* entry get_file_if_exists gives; the entries that cannot be opened and
\* those without a base name are not in the index.
C11_LastWins ==
    Constructed => ConstructionOk /\ IndexIsLastOf(OpenedEntries, SharingOpened)

\* C11 witness: of three entries sharing the base name hello.txt, at depths
\* 0, 1 and 0, the last cannot be opened; the lookup of hello.txt gives the
\* data of the second.
C11_Witness ==
    /\ archive = << [name |-> <<"hello.txt">>, data |-> "hello\n",
                     opens |-> TRUE],
                    [name |-> <<"folder", "hello.txt">>, data |-> "world\n",
                     opens |-> TRUE],
                    [name |-> <<"hello.txt">>, data |-> "", opens |-> FALSE] >>
    /\ zipRes.op = "get_file_if_exists"
    /\ zipRes.name = <<"hello.txt">>
    /\ index_by_name[<<"hello.txt">>] = 1
    /\ zipRes.result.value.reader.some
    /\ zipRes.result.value.reader.value.data = "world\n"

=============================================================================
